---- MODULE Spec2Model ----
(***************************************************************************)
(* Model of risk_scorer.py: the retrying fetch of a wallet's transaction  *)
(* lists, the feature extraction, normalisation and scoring of one wallet *)
(* (process_wallet), and the run over all wallets on a worker pool         *)
(* (main, process_wallets_parallel).                                       *)
(*                                                                         *)
(* Representation.  Python floats are modelled in fixed point with Scale   *)
(* units per 1.0 (floor division); the inputs are chosen so that the raw   *)
(* features are exact in that unit.  Strings are sequences of characters,  *)
(* addresses are abbreviated to one or two characters.  A Python exception *)
(* is modelled by its name in an `exc' field ("" means no exception).      *)
(***************************************************************************)
EXTENDS Integers, Sequences, FiniteSets, TLC

VARIABLES
    source,      \* what the external data sources can answer in this run
    input,       \* the wallet_id column read from INPUT_CSV
    wallet_ids,  \* main: the stripped, lower-cased, unique address list
    mainpc,      \* position of the main thread
    submitted,   \* number of futures created by the dict comprehension
    tpc,         \* per future: position of its process_wallet task
    fetch,       \* per future and action: the fetch_transaction_data call
    metrics,     \* per future: locals of calculate_wallet_features
    reads,       \* per future: how each of its three reads ended
    raised,      \* per future: the exception raised inside process_wallet
    future,      \* per future: its state and its result or exception
    yielded,     \* futures that as_completed has already yielded
    results      \* process_wallets_parallel: the results list

vars == << source, input, wallet_ids, mainpc, submitted, tpc, fetch, metrics,
           reads, raised, future, yielded, results >>

----------------------------------------------------------------------------
(* Bounds of the model *)

MaxInput == 2     \* rows of the input CSV
MaxTxs == 2       \* transactions in one fetched list (single-wallet harness)
PoolFresh == 2    \* workers of the pool that are free in the full-pool harness

(* Program constants *)

MAX_WORKERS == 10
MAX_RETRIES == 3
Scale == 10 * 100     \* fixed-point units per 1.0 (a modelling unit)
DaySeconds == 86400
AgeHorizon == 730
DefiSaturation == 15
TxVolumeDivisor == 6
TxFreqDivisor == 10
BalanceCap == 10

Min(a, b) == IF a <= b THEN a ELSE b
Max(a, b) == IF a >= b THEN a ELSE b

----------------------------------------------------------------------------
(* Strings *)

LowerChar(c) ==
    CASE c = "A" -> "a"
      [] c = "B" -> "b"
      [] c = "D" -> "d"
      [] OTHER -> c

Lower(s) == [i \in 1..Len(s) |-> LowerChar(s[i])]

RECURSIVE LStrip(_)
LStrip(s) ==
    IF s # <<>> /\ Head(s) = " " THEN LStrip(Tail(s)) ELSE s

RECURSIVE RStrip(_)
RStrip(s) ==
    IF s # <<>> /\ s[Len(s)] = " " THEN RStrip(SubSeq(s, 1, Len(s) - 1)) ELSE s

Strip(s) == RStrip(LStrip(s))

InSeq(x, s) == \E i \in 1..Len(s) : s[i] = x

RECURSIVE Unique(_)
Unique(s) ==
    IF s = <<>> THEN <<>>
    ELSE LET init == Unique(SubSeq(s, 1, Len(s) - 1))
             last == s[Len(s)]
         IN  IF InSeq(last, init) THEN init ELSE Append(init, last)

(* A load that strips and lower-cases but keeps repeated rows *)
LoadWalletIds_keep_duplicates(column) ==
    [i \in 1..Len(column) |-> Lower(Strip(column[i]))]

LoadWalletIds(column) ==
    Unique([i \in 1..Len(column) |-> Lower(Strip(column[i]))])

----------------------------------------------------------------------------
(* Transactions *)

DEFI_CONTRACTS ==
    { <<"7", "d">>, <<"3", "d">>, <<"d", "9">>, <<"7", "a">>, <<"1", "1">> }

None == << "None" >>    \* a 'to' field that is present and null
NoKey == 0 - 1          \* a record without a usable 'timeStamp'

(* A lookup that forgets to lower-case the address *)
IsDefi_case_sensitive(tx) == tx.to \in DEFI_CONTRACTS

IsDefi(tx) == Lower(tx.to) \in DEFI_CONTRACTS

Log1pTable ==
    << 693, 1098, 1386, 1609, 1791, 1945, 2079, 2197, 2302, 2397,
       2484, 2564, 2639, 2708, 2772, 2833 >>

Log1p(n) == IF n = 0 THEN 0 ELSE Log1pTable[n]

----------------------------------------------------------------------------
(* calculate_wallet_features, lines 84-102: the transaction metrics.       *)
(* account_age_days and tx_frequency are in 1/Scale units.                 *)

ToDays(seconds) ==
    (seconds \div DaySeconds) * Scale
        + ((seconds % DaySeconds) * Scale) \div DaySeconds

DefiInteractions(all_txs) ==
    Cardinality({ i \in 1..Len(all_txs) : IsDefi(all_txs[i]) })

TxMetrics(native_txs, erc20_txs) ==
    LET all_txs == native_txs \o erc20_txs
        tx_count == Len(all_txs)
        first_tx == all_txs[1].timeStamp
        last_tx == all_txs[tx_count].timeStamp
        age_days == IF tx_count > 0 THEN ToDays(last_tx - first_tx) ELSE 0
        tx_freq == IF tx_count > 0 /\ age_days > 0
                   THEN (tx_count * Scale * Scale) \div age_days
                   ELSE 0
    IN  IF \E i \in 1..tx_count : all_txs[i].to = None
        THEN [exc |-> "AttributeError"]
        ELSE IF tx_count > 0 /\ (first_tx = NoKey \/ last_tx = NoKey)
        THEN [exc |-> "KeyError"]
        ELSE [exc |-> "",
              all_txs |-> all_txs,
              tx_count |-> tx_count,
              defi_interactions |-> DefiInteractions(all_txs),
              account_age_days |-> age_days,
              tx_frequency |-> tx_freq]

(* Lines 104-118: the balance read (NoBalance: the read raised) and the    *)
(* feature record.  Balances are in 1/Scale ether.                         *)

NoBalance == 0 - 1

(* A feature record that falls back to all zeros when the read raised *)
WalletFeatures_zero_on_failed_read(wallet_address, m, read) ==
    [wallet_id |-> wallet_address,
     tx_count |-> IF read = NoBalance THEN 0 ELSE m.tx_count,
     defi_interactions |-> IF read = NoBalance THEN 0 ELSE m.defi_interactions,
     account_age_days |-> IF read = NoBalance THEN 0 ELSE m.account_age_days,
     tx_frequency |-> IF read = NoBalance THEN 0 ELSE m.tx_frequency,
     balance_eth |-> IF read = NoBalance THEN 0 ELSE read,
     is_active |-> IF read # NoBalance /\ m.tx_count > 0 THEN 1 ELSE 0]

WalletFeatures(wallet_address, m, read) ==
    LET balance == IF read = NoBalance THEN 0 ELSE read
    IN  [wallet_id |-> wallet_address,
         tx_count |-> m.tx_count,
         defi_interactions |-> m.defi_interactions,
         account_age_days |-> m.account_age_days,
         tx_frequency |-> m.tx_frequency,
         balance_eth |-> balance,
         is_active |-> IF m.tx_count > 0 THEN 1 ELSE 0]

----------------------------------------------------------------------------
(* normalize_features and calculate_risk_score *)

(* A normalisation whose account_age is not inverted *)
normalize_features_age_not_inverted(features) ==
    [tx_volume |-> Min(Log1p(features.tx_count) \div TxVolumeDivisor, Scale),
     defi_usage |->
        Min((features.defi_interactions * Scale) \div DefiSaturation, Scale),
     account_age |-> Min(features.account_age_days \div AgeHorizon, Scale),
     tx_freq |-> Min(features.tx_frequency \div TxFreqDivisor, Scale),
     balance_risk |->
        Scale - (Min(features.balance_eth, BalanceCap * Scale) \div BalanceCap)]

normalize_features(features) ==
    [tx_volume |-> Min(Log1p(features.tx_count) \div TxVolumeDivisor, Scale),
     defi_usage |->
        Min((features.defi_interactions * Scale) \div DefiSaturation, Scale),
     account_age |->
        Scale - Min(features.account_age_days \div AgeHorizon, Scale),
     tx_freq |-> Min(features.tx_frequency \div TxFreqDivisor, Scale),
     balance_risk |->
        Scale - (Min(features.balance_eth, BalanceCap * Scale) \div BalanceCap)]

Get(dict, key, default) ==
    IF key \in DOMAIN dict THEN dict[key] ELSE default

(* Lines 135-146.  The weights 0.6, 0.4, 0.3 are kept as tenths:          *)
(* behavior_score and activity_score carry a factor 10, risk_score a       *)
(* factor 100; the value is risk_score * 1000, rounded down.               *)
RiskTimes1000(normalized) ==
    LET behavior_score ==
            6 * normalized.defi_usage + 4 * normalized.balance_risk
        activity_score ==
            4 * normalized.tx_volume + 3 * normalized.tx_freq
                + 3 * normalized.account_age
        risk_score == 6 * behavior_score + 4 * activity_score
    IN  (risk_score * 1000) \div (100 * Scale)

(* A score that is not clamped to 0..1000 *)
calculate_risk_score_unclamped(normalized) ==
    IF Get(normalized, "is_active", 1) = 0
    THEN 0
    ELSE RiskTimes1000(normalized)

calculate_risk_score(normalized) ==
    IF Get(normalized, "is_active", 1) = 0
    THEN 0
    ELSE Min(Max(RiskTimes1000(normalized), 0), 1000)

----------------------------------------------------------------------------
(* process_wallet: what the task hands to its future *)

ProcessWalletReturn(wallet_address, features) ==
    [exception |-> "",
     result |-> [wallet_id |-> wallet_address,
                 score |-> calculate_risk_score(normalize_features(features)),
                 tx_count |-> features.tx_count,
                 defi_interactions |-> features.defi_interactions,
                 account_age_days |-> features.account_age_days,
                 tx_frequency |-> features.tx_frequency,
                 balance_eth |-> features.balance_eth,
                 is_active |-> features.is_active]]

(* A process_wallet without its try/except: the exception reaches the future *)
ProcessWalletExcept_propagate(wallet_address, e) ==
    [exception |-> e, result |-> <<>>]

(* An except branch that also reports a feature field *)
ProcessWalletExcept_with_feature(wallet_address, e) ==
    [exception |-> "",
     result |-> [wallet_id |-> wallet_address, score |-> 0, error |-> e,
                 is_active |-> 0]]

ProcessWalletExcept(wallet_address, e) ==
    [exception |-> "",
     result |-> [wallet_id |-> wallet_address, score |-> 0, error |-> e]]

----------------------------------------------------------------------------
(* The external world *)

Actions == { "txlist", "tokentx" }

RawAddrs == { << "a" >>, << "A", " " >>, << "b" >> }

TimeStamps == { 0, 43200, 345600000 }    \* 0, half a day, 4000 days

Tx(to, ts) == [to |-> to, timeStamp |-> ts]

TxSamples ==
    { Tx(to, ts) : to \in { << "7", "D" >>, << "e", "e" >> }, ts \in TimeStamps }
        \cup { Tx(None, 0), Tx(<< "e", "e" >>, NoKey) }

(* Etherscan is asked for sort=asc: each list is ascending by timestamp *)
SortedAsc(txs) ==
    \A i, j \in 1..Len(txs) :
        (i < j /\ txs[i].timeStamp # NoKey /\ txs[j].timeStamp # NoKey)
            => txs[i].timeStamp <= txs[j].timeStamp

SeqsUpTo(S, n) == UNION { [1..k -> S] : k \in 0..n }

TxLists == { txs \in SeqsUpTo(TxSamples, MaxTxs) : SortedAsc(txs) }

Balances == { NoBalance, 0, 5 * Scale, 20 * Scale }

GoodTxs == << Tx(<< "7", "D" >>, 0) >>
BadTxs == << Tx(None, 0) >>

(* What the data sources answer during a run over several wallets *)
RunSource ==
    [txlists |-> { GoodTxs, BadTxs },
     failures |-> { "status" },
     malformed |-> FALSE,
     balances |-> { NoBalance, 5 * Scale }]

(* What they answer during a run over a single wallet *)
WalletSource ==
    [txlists |-> { <<>>, GoodTxs, BadTxs },
     failures |-> { "status_code", "status", "RequestException" },
     malformed |-> TRUE,
     balances |-> { NoBalance, 5 * Scale }]

(* What they answer to a wallet whose two fetches have already returned *)
PipeSource ==
    [txlists |-> {},
     failures |-> {},
     malformed |-> FALSE,
     balances |-> Balances]

(* The answers to one request: 200 with status '1' and a record set, a     *)
(* failure, or status '1' without a 'result' (KeyError at line 60)         *)
Answers(src) ==
    { [kind |-> "ok", txs |-> txs] : txs \in src.txlists }
        \cup { [kind |-> k, txs |-> <<>>] : k \in src.failures }
        \cup IF src.malformed THEN { [kind |-> "KeyError", txs |-> <<>>] } ELSE {}

(* A source may fix, per wallet, the answer to each attempt of each call   *)
(* and the balance: the answers then depend on the request alone           *)
Scripted(src) == "script" \in DOMAIN src

AnswersTo(src, wallet_address, action, attempt) ==
    IF Scripted(src)
    THEN { src.script[wallet_address][action][attempt + 1] }
    ELSE Answers(src)

BalancesOf(src, wallet_address) ==
    IF Scripted(src)
    THEN { src.script[wallet_address].balance }
    ELSE src.balances

----------------------------------------------------------------------------
(* fetch_transaction_data: the state of one call.  `got' is the answer   *)
(* the source gave to the latest request.                                  *)

NoAnswer == [kind |-> "", txs |-> <<>>]

Idle == [pc |-> "idle", attempt |-> 0, result |-> <<>>, got |-> NoAnswer]

Requesting == [Idle EXCEPT !.pc = "request"]

(* A call that takes an empty record set for a failure and retries *)
FetchAnswer_retry_on_empty(f, answer) ==
    CASE answer.kind = "ok" /\ answer.txs # <<>> ->
            [f EXCEPT !.pc = "returned", !.result = answer.txs]
      [] answer.kind = "KeyError" ->
            [f EXCEPT !.pc = "raised"]
      [] answer.kind = "RequestException" ->
            [f EXCEPT !.pc = "sleep_1"]
      [] OTHER ->
            [f EXCEPT !.pc = "sleep_delay"]

(* A call that waits REQUEST_DELAY after every kind of failure *)
FetchAnswer_same_wait(f, answer) ==
    CASE answer.kind = "ok" ->
            [f EXCEPT !.pc = "returned", !.result = answer.txs]
      [] answer.kind = "KeyError" ->
            [f EXCEPT !.pc = "raised"]
      [] OTHER ->
            [f EXCEPT !.pc = "sleep_delay"]

(* lines 56-63: what the call does with the answer to this attempt *)
FetchAnswer(f, answer) ==
    CASE answer.kind = "ok" ->
            [f EXCEPT !.pc = "returned", !.result = answer.txs]
      [] answer.kind = "KeyError" ->
            [f EXCEPT !.pc = "raised"]
      [] answer.kind = "RequestException" ->
            [f EXCEPT !.pc = "sleep_1"]
      [] OTHER ->
            [f EXCEPT !.pc = "sleep_delay"]

(* A call that raises once its attempts are used up *)
FetchNext_raise_when_exhausted(f) ==
    IF f.attempt + 1 < MAX_RETRIES
    THEN [f EXCEPT !.pc = "request", !.attempt = f.attempt + 1]
    ELSE [f EXCEPT !.pc = "raised", !.attempt = f.attempt + 1]

(* A call whose loop has no bound: it retries as long as attempts fail *)
FetchNext_retry_forever(f) == [f EXCEPT !.pc = "request"]

(* lines 54, 65: the sleep is over; the next attempt, or return [] *)
FetchNext(f) ==
    IF f.attempt + 1 < MAX_RETRIES
    THEN [f EXCEPT !.pc = "request", !.attempt = f.attempt + 1]
    ELSE [f EXCEPT !.pc = "returned", !.attempt = f.attempt + 1,
                   !.result = <<>>]

(* A join that takes a call that sleeps between attempts for finished *)
FetchDone_while_retrying(f) == f.pc # "request"

FetchDone(f) == f.pc \in { "returned", "raised" }

----------------------------------------------------------------------------
(* The run *)

Futures == 1..Len(wallet_ids)

Pending == [state |-> "pending", exception |-> "", result |-> <<>>]

NoReads == [txlist |-> "", tokentx |-> "", balance |-> ""]

Init ==
    /\ source = RunSource
    /\ input \in SeqsUpTo(RawAddrs, MaxInput)
    /\ wallet_ids = <<>>
    /\ mainpc = "load"
    /\ submitted = 0
    /\ tpc = <<>>
    /\ fetch = <<>>
    /\ metrics = <<>>
    /\ reads = <<>>
    /\ raised = <<>>
    /\ future = <<>>
    /\ yielded = {}
    /\ results = <<>>

(* main, lines 221-229 *)
Load ==
    /\ mainpc = "load"
    /\ wallet_ids' = LoadWalletIds(input)
    /\ mainpc' = "submit"
    /\ UNCHANGED << source, input, submitted, tpc, fetch, metrics, reads,
                    raised, future, yielded, results >>

(* process_wallets_parallel, lines 173-176: one executor.submit *)
Submit ==
    /\ mainpc = "submit"
    /\ submitted < Len(wallet_ids)
    /\ submitted' = submitted + 1
    /\ tpc' = Append(tpc, "queued")
    /\ fetch' = Append(fetch, [a \in Actions |-> Idle])
    /\ metrics' = Append(metrics, [exc |-> ""])
    /\ reads' = Append(reads, NoReads)
    /\ raised' = Append(raised, "")
    /\ future' = Append(future, Pending)
    /\ UNCHANGED << source, input, wallet_ids, mainpc, yielded, results >>

(* lines 176-178: the comprehension is over, as_completed starts *)
AllSubmitted ==
    /\ mainpc = "submit"
    /\ submitted = Len(wallet_ids)
    /\ mainpc' = "collect"
    /\ UNCHANGED << source, input, wallet_ids, submitted, tpc, fetch, metrics,
                    reads, raised, future, yielded, results >>

Running == { i \in 1..submitted : tpc[i] \in { "fetching", "balance" } }

(* A pool that starts a thread for every submitted task *)
StartTask_unbounded(i) ==
    /\ tpc[i] = "queued"
    /\ tpc' = [tpc EXCEPT ![i] = "fetching"]
    /\ fetch' = [fetch EXCEPT ![i] = [a \in Actions |-> Requesting]]
    /\ future' = [future EXCEPT ![i].state = "running"]
    /\ UNCHANGED << source, input, wallet_ids, mainpc, submitted, metrics,
                    reads, raised, yielded, results >>

(* A pool worker takes the task; fetch_wallet_data, lines 69-79, submits   *)
(* both fetches to its own two-thread executor                             *)
StartTask(i) ==
    /\ tpc[i] = "queued"
    /\ Cardinality(Running) < MAX_WORKERS
    /\ tpc' = [tpc EXCEPT ![i] = "fetching"]
    /\ fetch' = [fetch EXCEPT ![i] = [a \in Actions |-> Requesting]]
    /\ future' = [future EXCEPT ![i].state = "running"]
    /\ UNCHANGED << source, input, wallet_ids, mainpc, submitted, metrics,
                    reads, raised, yielded, results >>

(* fetch_transaction_data, lines 56-63: one attempt and its answer *)
FetchAttempt(i, a) ==
    /\ tpc[i] = "fetching"
    /\ fetch[i][a].pc = "request"
    /\ \E answer \in AnswersTo(source, wallet_ids[i], a, fetch[i][a].attempt) :
          fetch' = [fetch EXCEPT ![i][a] =
                       [FetchAnswer(@, answer) EXCEPT !.got = answer]]
    /\ UNCHANGED << source, input, wallet_ids, mainpc, submitted, tpc, metrics,
                    reads, raised, future, yielded, results >>

(* lines 61, 63: time.sleep returns *)
FetchWake(i, a) ==
    /\ tpc[i] = "fetching"
    /\ fetch[i][a].pc \in { "sleep_delay", "sleep_1" }
    /\ fetch' = [fetch EXCEPT ![i][a] = [FetchNext(@) EXCEPT !.got = NoAnswer]]
    /\ UNCHANGED << source, input, wallet_ids, mainpc, submitted, tpc, metrics,
                    reads, raised, future, yielded, results >>

(* fetch_wallet_data line 80: both futures' results, the first exception   *)
(* re-raised; then calculate_wallet_features lines 84-102                  *)
FetchWalletData(f) ==
    IF f["txlist"].pc = "raised" THEN [exc |-> "KeyError"]
    ELSE IF f["tokentx"].pc = "raised" THEN [exc |-> "KeyError"]
    ELSE [exc |-> "", native_txs |-> f["txlist"].result,
          erc20_txs |-> f["tokentx"].result]

ReadEnd(f) ==
    IF f.got.kind = "ok" THEN "ok"
    ELSE IF f.got.kind = "" THEN "exhausted" ELSE "raised"

JoinFetches(i) ==
    /\ tpc[i] = "fetching"
    /\ \A a \in Actions : FetchDone(fetch[i][a])
    /\ LET data == FetchWalletData(fetch[i])
           m == IF data.exc # "" THEN [exc |-> data.exc]
                ELSE TxMetrics(data.native_txs, data.erc20_txs)
       IN  IF m.exc # ""
           THEN /\ raised' = [raised EXCEPT ![i] = m.exc]
                /\ tpc' = [tpc EXCEPT ![i] = "done"]
                /\ future' = [future EXCEPT ![i] =
                      [state |-> "done"]
                          @@ ProcessWalletExcept(wallet_ids[i], m.exc)]
                /\ UNCHANGED metrics
           ELSE /\ metrics' = [metrics EXCEPT ![i] = m]
                /\ tpc' = [tpc EXCEPT ![i] = "balance"]
                /\ UNCHANGED << raised, future >>
    /\ reads' = [reads EXCEPT ![i] =
                    [txlist |-> ReadEnd(fetch[i]["txlist"]),
                     tokentx |-> ReadEnd(fetch[i]["tokentx"]),
                     balance |-> ""]]
    /\ fetch' = [fetch EXCEPT ![i] = [a \in Actions |-> Idle]]
    /\ UNCHANGED << source, input, wallet_ids, mainpc, submitted, yielded,
                    results >>

(* A task whose locals live in one place shared by all worker threads:    *)
(* it reads the metrics written by the latest task that reached this line *)
BalanceRead_shared_locals(i) ==
    /\ tpc[i] = "balance"
    /\ \E read \in BalancesOf(source, wallet_ids[i]) :
          LET last == CHOOSE k \in 1..submitted :
                         /\ tpc[k] = "balance"
                         /\ \A j \in 1..submitted : tpc[j] = "balance" => j <= k
          IN  /\ future' = [future EXCEPT ![i] =
                    [state |-> "done"]
                        @@ ProcessWalletReturn(wallet_ids[i],
                              WalletFeatures(wallet_ids[i], metrics[last], read))]
              /\ reads' = [reads EXCEPT ![i].balance =
                              IF read = NoBalance THEN "raised" ELSE "ok"]
    /\ tpc' = [tpc EXCEPT ![i] = "done"]
    /\ metrics' = [metrics EXCEPT ![i] = [exc |-> ""]]
    /\ UNCHANGED << source, input, wallet_ids, mainpc, submitted, fetch,
                    raised, yielded, results >>

(* lines 104-118, then process_wallet lines 153-159 *)
BalanceRead(i) ==
    /\ tpc[i] = "balance"
    /\ \E read \in BalancesOf(source, wallet_ids[i]) :
          /\ future' = [future EXCEPT ![i] =
                [state |-> "done"]
                    @@ ProcessWalletReturn(wallet_ids[i],
                          WalletFeatures(wallet_ids[i], metrics[i], read))]
          /\ reads' = [reads EXCEPT ![i].balance =
                          IF read = NoBalance THEN "raised" ELSE "ok"]
    /\ tpc' = [tpc EXCEPT ![i] = "done"]
    /\ metrics' = [metrics EXCEPT ![i] = [exc |-> ""]]
    /\ UNCHANGED << source, input, wallet_ids, mainpc, submitted, fetch,
                    raised, yielded, results >>

(* lines 178-184: as_completed yields a finished future; future.result()   *)
(* returns its value or re-raises its exception                            *)
Collect(i) ==
    /\ mainpc = "collect"
    /\ i \notin yielded
    /\ future[i].state = "done"
    /\ yielded' = yielded \cup { i }
    /\ IF future[i].exception = ""
       THEN /\ results' = Append(results, future[i].result)
            /\ mainpc' = "pace"
       ELSE /\ mainpc' = "crashed"
            /\ UNCHANGED results
    /\ UNCHANGED << source, input, wallet_ids, submitted, tpc, fetch, metrics,
                    reads, raised, future >>

(* line 185: time.sleep(REQUEST_DELAY) returns *)
Pace ==
    /\ mainpc = "pace"
    /\ mainpc' = "collect"
    /\ UNCHANGED << source, input, wallet_ids, submitted, tpc, fetch, metrics,
                    reads, raised, future, yielded, results >>

(* line 187 *)
Return ==
    /\ mainpc = "collect"
    /\ yielded = Futures
    /\ mainpc' = "returned"
    /\ UNCHANGED << source, input, wallet_ids, submitted, tpc, fetch, metrics,
                    reads, raised, future, yielded, results >>

Next ==
    \/ Load
    \/ Submit
    \/ AllSubmitted
    \/ \E i \in 1..submitted : StartTask(i)
    \/ \E i \in 1..submitted, a \in Actions : FetchAttempt(i, a)
    \/ \E i \in 1..submitted, a \in Actions : FetchWake(i, a)
    \/ \E i \in 1..submitted : JoinFetches(i)
    \/ \E i \in 1..submitted : BalanceRead(i)
    \/ \E i \in 1..submitted : Collect(i)
    \/ Pace
    \/ Return

Spec == Init /\ [][Next]_vars

(* The run when threads are scheduled, sleeps return and every external   *)
(* call returns or fails within Config.TIMEOUT: some enabled step happens *)
SpecFair == Init /\ [][Next]_vars /\ WF_vars(Next)

(* A run over a one-row input, with every kind of answer *)
InitWallet ==
    /\ source = WalletSource
    /\ input \in [1..1 -> RawAddrs]
    /\ wallet_ids = <<>>
    /\ mainpc = "load"
    /\ submitted = 0
    /\ tpc = <<>>
    /\ fetch = <<>>
    /\ metrics = <<>>
    /\ reads = <<>>
    /\ raised = <<>>
    /\ future = <<>>
    /\ yielded = {}
    /\ results = <<>>

SpecWallet == InitWallet /\ [][Next]_vars

(* One wallet whose two fetches have returned: process_wallet from         *)
(* line 84 on, over all pairs of transaction lists                         *)
InitPipe ==
    /\ source = PipeSource
    /\ input = << << "a" >> >>
    /\ wallet_ids = LoadWalletIds(input)
    /\ mainpc = "collect"
    /\ submitted = 1
    /\ tpc = << "fetching" >>
    /\ \E native_txs \in TxLists, erc20_txs \in TxLists :
          fetch = << [a \in Actions |->
                        LET txs == IF a = "txlist" THEN native_txs
                                   ELSE erc20_txs
                        IN  [pc |-> "returned", attempt |-> 0, result |-> txs,
                             got |-> [kind |-> "ok", txs |-> txs]]] >>
    /\ metrics = << [exc |-> ""] >>
    /\ reads = << NoReads >>
    /\ raised = << "" >>
    /\ future = << [Pending EXCEPT !.state = "running"] >>
    /\ yielded = {}
    /\ results = <<>>

NextPipe ==
    \/ \E i \in 1..submitted : JoinFetches(i)
    \/ \E i \in 1..submitted : BalanceRead(i)
    \/ \E i \in 1..submitted : Collect(i)
    \/ Pace
    \/ Return

SpecPipe == InitPipe /\ [][NextPipe]_vars

(* A run over MAX_WORKERS + 1 wallets, all submitted, seen at the moment   *)
(* when all but PoolFresh workers are busy with a wallet whose fetches     *)
(* have returned, and the other tasks are still queued                     *)
PoolSource ==
    [txlists |-> { GoodTxs },
     failures |-> {},
     malformed |-> FALSE,
     balances |-> { 5 * Scale }]

PoolDigits == << "0", "1", "2", "3", "4", "5", "6", "7", "8", "9", "a" >>

PoolInput == [k \in 1..(MAX_WORKERS + 1) |-> << "b", PoolDigits[k] >>]

PoolBusy == 1..(MAX_WORKERS - PoolFresh)

InitPool ==
    /\ source = PoolSource
    /\ input = PoolInput
    /\ wallet_ids = LoadWalletIds(input)
    /\ mainpc = "collect"
    /\ submitted = Len(wallet_ids)
    /\ tpc = [i \in 1..submitted |->
                IF i \in PoolBusy THEN "balance" ELSE "queued"]
    /\ fetch = [i \in 1..submitted |-> [a \in Actions |-> Idle]]
    /\ metrics = [i \in 1..submitted |->
                    IF i \in PoolBusy THEN TxMetrics(GoodTxs, GoodTxs)
                    ELSE [exc |-> ""]]
    /\ reads = [i \in 1..submitted |->
                  IF i \in PoolBusy
                  THEN [NoReads EXCEPT !.txlist = "ok", !.tokentx = "ok"]
                  ELSE NoReads]
    /\ raised = [i \in 1..submitted |-> ""]
    /\ future = [i \in 1..submitted |->
                   IF i \in PoolBusy THEN [Pending EXCEPT !.state = "running"]
                   ELSE Pending]
    /\ yielded = {}
    /\ results = <<>>

(* The worker threads alone: the main thread waits in as_completed *)
NextPool ==
    \/ \E i \in 1..submitted : StartTask(i)
    \/ \E i \in 1..submitted, a \in Actions : FetchAttempt(i, a)
    \/ \E i \in 1..submitted : JoinFetches(i)
    \/ \E i \in 1..submitted : BalanceRead(i)

SpecPool == InitPool /\ [][NextPool]_vars

(* A run over two wallets against sources whose answers are fixed per      *)
(* wallet, call and attempt                                                *)
Ok(txs) == [kind |-> "ok", txs |-> txs]

Failed(kind) == [kind |-> kind, txs |-> <<>>]

AtOnce == << Ok(GoodTxs), Failed("status"), Failed("status") >>

AtSecond == << Failed("status"), Ok(GoodTxs \o GoodTxs), Failed("status") >>

BadAtSecond == << Failed("status_code"), Ok(BadTxs), Failed("status") >>

Never ==
    << Failed("RequestException"), Failed("status"),
       Failed("RequestException") >>

WalletScripts ==
    { [txlist |-> AtOnce, tokentx |-> AtSecond, balance |-> 5 * Scale],
      [txlist |-> Never, tokentx |-> AtOnce, balance |-> NoBalance],
      [txlist |-> AtOnce, tokentx |-> BadAtSecond, balance |-> 20 * Scale] }

FixedInput == << << "a" >>, << "b" >> >>

InitFixed ==
    /\ \E script \in [{ FixedInput[k] : k \in 1..Len(FixedInput) }
                         -> WalletScripts] :
          source = [txlists |-> {}, failures |-> {}, malformed |-> FALSE,
                    balances |-> {}, script |-> script]
    /\ input = FixedInput
    /\ wallet_ids = <<>>
    /\ mainpc = "load"
    /\ submitted = 0
    /\ tpc = <<>>
    /\ fetch = <<>>
    /\ metrics = <<>>
    /\ reads = <<>>
    /\ raised = <<>>
    /\ future = <<>>
    /\ yielded = {}
    /\ results = <<>>

SpecFixed == InitFixed /\ [][Next]_vars

----------------------------------------------------------------------------
(* Properties *)

Done(i) == future[i].state = "done" /\ future[i].exception = ""

Record(i) == future[i].result

Succeeded(i) == Done(i) /\ "error" \notin DOMAIN Record(i)

FeatureFields ==
    { "tx_count", "defi_interactions", "account_age_days", "tx_frequency",
      "balance_eth", "is_active" }

(* C1: a result record built from raw features with is_active false has   *)
(* score 0, whatever the balance and the other features are.               *)
C1_InactiveScoresZero ==
    \A i \in 1..submitted :
        (Succeeded(i) /\ Record(i).is_active = 0) => Record(i).score = 0

(* C2: a wallet whose two fetches used up their attempts and whose balance *)
(* read raised still gets a record, with score 0 and no error field.       *)
C2_AllSoftFailScoresZero ==
    \A i \in 1..submitted :
        (tpc[i] = "done"
            /\ reads[i] = [txlist |-> "exhausted", tokentx |-> "exhausted",
                           balance |-> "raised"])
        => (Succeeded(i) /\ Record(i).score = 0)

(* C3: every result record, of the success path and of the error path,     *)
(* has a score in 0..1000.                                                 *)
C3_ScoreInRange ==
    /\ \A i \in 1..submitted : Done(i) => Record(i).score \in 0..1000
    /\ \A k \in 1..Len(results) : results[k].score \in 0..1000

C3_Witness ==
    \E i \in 1..submitted :
        /\ Succeeded(i)
        /\ Record(i).score = 1000
        /\ RiskTimes1000(normalize_features(Record(i))) > 1000

(* C4: an exception in one wallet's processing never leaves               *)
(* process_wallets_parallel; that wallet's record is score 0 with the      *)
(* error message; every other wallet's record is the one its own features  *)
(* give, and the run returns one record per wallet.                        *)
C4_FailureIsolation ==
    /\ mainpc # "crashed"
    /\ \A i \in 1..submitted :
          raised[i] # "" =>
              /\ future[i].state = "done"
              /\ future[i].exception = ""
              /\ Record(i) = [wallet_id |-> wallet_ids[i], score |-> 0,
                              error |-> raised[i]]
    /\ \A i, j \in 1..submitted :
          (i # j /\ raised[i] # "" /\ future[j].state = "done" /\ raised[j] = "")
          => /\ Succeeded(j)
             /\ Record(j).wallet_id = wallet_ids[j]
             /\ Record(j).score =
                    calculate_risk_score(normalize_features(Record(j)))
    /\ mainpc = "returned" =>
          /\ Len(results) = Len(wallet_ids)
          /\ \A i \in Futures : \E k \in 1..Len(results) : results[k] = Record(i)

C4_Witness ==
    /\ mainpc = "returned"
    /\ \E i, j \in Futures :
          /\ raised[i] # ""
          /\ raised[j] = ""
          /\ Record(j).score > 0

(* C5: the run ends with exactly one result record for each distinct       *)
(* stripped, lower-cased address of the input column, and no other record. *)
Normalized == { Lower(Strip(input[k])) : k \in 1..Len(input) }

C5_OneRecordPerAddress ==
    mainpc = "returned" =>
        /\ \A address \in Normalized :
              Cardinality({ k \in 1..Len(results) :
                              results[k].wallet_id = address }) = 1
        /\ \A k \in 1..Len(results) : results[k].wallet_id \in Normalized

C5_Witness ==
    /\ mainpc = "returned"
    /\ Len(results) = 1
    /\ \E k, l \in 1..Len(input) : input[k] # input[l]

(* C6: a call issues at most MAX_RETRIES requests; once a request is       *)
(* answered 200 with status '1' the call has returned that answer's record *)
(* set, empty or not, and issues no further request.                       *)
C6_FirstSuccessReturned ==
    \A i \in 1..submitted : \A a \in Actions :
        LET f == fetch[i][a]
        IN  /\ f.pc = "request" => f.attempt + 1 <= MAX_RETRIES
            /\ f.got.kind = "ok" =>
                  /\ f.pc = "returned"
                  /\ f.result = f.got.txs
                  /\ f.attempt + 1 <= MAX_RETRIES

C6_Witness ==
    \E i \in 1..submitted : \E a \in Actions :
        /\ fetch[i][a].pc = "returned"
        /\ fetch[i][a].attempt + 1 = MAX_RETRIES
        /\ fetch[i][a].got.kind = "ok"
        /\ fetch[i][a].result # <<>>

(* C7: a transient error never makes a call raise; a call whose every      *)
(* attempt failed returns the empty list, and the wallet is processed with *)
(* that empty list.                                                        *)
C7_TransientNeverRaises ==
    \A i \in 1..submitted :
        /\ \A a \in Actions :
              LET f == fetch[i][a]
              IN  /\ f.got.kind \in { "status_code", "status", "RequestException" }
                        => f.pc \in { "sleep_delay", "sleep_1" }
                  /\ f.pc = "raised" => f.got.kind = "KeyError"
                  /\ (f.pc = "returned" /\ f.got.kind # "ok")
                        => (f.result = <<>> /\ f.attempt = MAX_RETRIES)
        /\ (reads[i].txlist = "exhausted" /\ reads[i].tokentx = "exhausted")
              => /\ raised[i] = ""
                 /\ tpc[i] = "balance" => metrics[i].all_txs = <<>>
                 /\ tpc[i] = "done" => (Succeeded(i) /\ Record(i).tx_count = 0)

C7_Witness ==
    \E i \in 1..submitted :
        /\ reads[i].txlist = "exhausted"
        /\ reads[i].tokentx = "exhausted"
        /\ Succeeded(i)

(* C8: account_age_days is non-negative and is the time from the earliest  *)
(* to the latest transaction of the combined list, in days.                *)
StampsOf(txs) == { txs[k].timeStamp : k \in 1..Len(txs) }

Earliest(txs) == CHOOSE t \in StampsOf(txs) : \A u \in StampsOf(txs) : t <= u

Latest(txs) == CHOOSE t \in StampsOf(txs) : \A u \in StampsOf(txs) : t >= u

C8_AgeSpansAllTransactions ==
    \A i \in 1..submitted :
        (tpc[i] = "balance" /\ metrics[i].all_txs # <<>>
            /\ NoKey \notin StampsOf(metrics[i].all_txs))
        => /\ metrics[i].account_age_days >= 0
           /\ metrics[i].account_age_days =
                  ToDays(Latest(metrics[i].all_txs) - Earliest(metrics[i].all_txs))

(* C9: each of the five normalized values of a feature record that         *)
(* calculate_wallet_features produced lies in [0,1].                       *)
C9_NormalizedInUnitInterval ==
    \A i \in 1..submitted :
        Succeeded(i) =>
            LET normalized == normalize_features(Record(i))
            IN  \A name \in DOMAIN normalized : normalized[name] \in 0..Scale

(* C10: a record has the error field iff the wallet's processing raised;   *)
(* then it is wallet_id, score 0 and error only; otherwise it is           *)
(* wallet_id, score and all six raw feature fields.                        *)
C10_RecordShape ==
    \A i \in 1..submitted :
        future[i].state = "done" =>
            /\ future[i].exception = ""
            /\ "error" \in DOMAIN Record(i) <=> raised[i] # ""
            /\ raised[i] # "" =>
                  /\ DOMAIN Record(i) = { "wallet_id", "score", "error" }
                  /\ Record(i).score = 0
            /\ raised[i] = "" =>
                  DOMAIN Record(i) = { "wallet_id", "score" } \cup FeatureFields

C10_Witness ==
    \E i, j \in 1..Len(results) :
        /\ "error" \in DOMAIN results[i]
        /\ "tx_count" \in DOMAIN results[j]

(* C11: when the balance read raises, the feature record is complete, has  *)
(* balance 0 and the transaction metrics computed before the read, and the *)
(* wallet's record has no error field.                                     *)
C11_FailedBalanceReadIsZero ==
    [][\A i \in 1..submitted :
          (tpc[i] = "balance" /\ tpc'[i] = "done"
              /\ reads'[i].balance = "raised")
          => /\ future'[i].state = "done"
             /\ future'[i].exception = ""
             /\ DOMAIN future'[i].result =
                    { "wallet_id", "score" } \cup FeatureFields
             /\ future'[i].result.balance_eth = 0
             /\ future'[i].result.tx_count = metrics[i].tx_count
             /\ future'[i].result.defi_interactions =
                    metrics[i].defi_interactions
             /\ future'[i].result.account_age_days =
                    metrics[i].account_age_days
             /\ future'[i].result.tx_frequency = metrics[i].tx_frequency
             /\ future'[i].result.is_active =
                    (IF metrics[i].tx_count > 0 THEN 1 ELSE 0)]_vars

C11_Witness ==
    \E i \in 1..submitted :
        /\ Succeeded(i)
        /\ reads[i].balance = "raised"
        /\ Record(i).tx_count > 0
        /\ Record(i).defi_interactions > 0

(* C15: on an active wallet, with the other raw features fixed, a larger   *)
(* defi_interactions never lowers the score, a larger account_age_days     *)
(* never raises it and a larger balance_eth never raises it.               *)
ScoreOf(features) == calculate_risk_score(normalize_features(features))

DefiSteps == { 1, 2, 15 }
AgeSteps == { Scale \div 2, 365 * Scale, 5000 * Scale }
BalanceSteps == { Scale, 5 * Scale, 20 * Scale }

C15_Monotone ==
    \A i \in 1..submitted :
        (Succeeded(i) /\ Record(i).is_active = 1) =>
            LET f == Record(i)
            IN  /\ \A d \in DefiSteps :
                      ScoreOf([f EXCEPT !.defi_interactions = @ + d])
                          >= ScoreOf(f)
                /\ \A d \in AgeSteps :
                      ScoreOf([f EXCEPT !.account_age_days = @ + d])
                          <= ScoreOf(f)
                /\ \A d \in BalanceSteps :
                      ScoreOf([f EXCEPT !.balance_eth = @ + d]) <= ScoreOf(f)

C15_Witness ==
    \E i \in 1..submitted :
        /\ Succeeded(i)
        /\ Record(i).is_active = 1
        /\ ScoreOf([Record(i) EXCEPT !.defi_interactions = @ + 1])
               > ScoreOf(Record(i))
        /\ ScoreOf([Record(i) EXCEPT !.account_age_days = @ + 365 * Scale])
               < ScoreOf(Record(i))
        /\ ScoreOf([Record(i) EXCEPT !.balance_eth = @ + Scale])
               < ScoreOf(Record(i))

(* C16: 0 <= defi_interactions <= tx_count, where tx_count is the number   *)
(* of fetched native and token transactions and defi_interactions the      *)
(* number of them whose lower-cased 'to' is in DEFI_CONTRACTS.             *)
C16_DefiAtMostTxCount ==
    \A i \in 1..submitted :
        tpc[i] = "balance" =>
            LET m == metrics[i]
            IN  /\ 0 <= m.defi_interactions
                /\ m.defi_interactions <= m.tx_count
                /\ m.tx_count = Len(m.all_txs)
                /\ m.defi_interactions =
                       Cardinality({ k \in 1..Len(m.all_txs) :
                           Lower(m.all_txs[k].to) \in DEFI_CONTRACTS })

C16_Witness ==
    \E i \in 1..submitted :
        /\ tpc[i] = "balance"
        /\ metrics[i].defi_interactions >= 1
        /\ metrics[i].defi_interactions < metrics[i].tx_count

(* C12: both fetches of a wallet are started together, and the metrics and *)
(* the feature record are computed only once both calls have returned or   *)
(* raised and, for the record, the balance read has ended.                 *)
Finished(f) == f.pc \in { "returned", "raised" }

C12_FeaturesAfterAllReads ==
    /\ [](\A i \in 1..submitted :
            /\ tpc[i] = "fetching" =>
                  \A a \in Actions : fetch[i][a].pc # "idle"
            /\ tpc[i] = "balance" =>
                  (reads[i].txlist # "" /\ reads[i].tokentx # "")
            /\ Succeeded(i) =>
                  (reads[i].txlist # "" /\ reads[i].tokentx # ""
                      /\ reads[i].balance # ""))
    /\ [][\A i \in 1..submitted :
            (tpc[i] = "fetching" /\ tpc'[i] # "fetching")
            => \A a \in Actions : Finished(fetch[i][a])]_vars

C12_Witness ==
    \E i \in 1..submitted :
        /\ tpc[i] = "balance"
        /\ reads[i].txlist = "exhausted"
        /\ reads[i].tokentx = "ok"
        /\ metrics[i].tx_count > 0

(* C18: a failed attempt is followed by exactly one wait before the next   *)
(* request: REQUEST_DELAY after a non-200 or non-'1' status, one second    *)
(* after a transport exception; two requests are never back to back.       *)
Sleeps == { "sleep_delay", "sleep_1" }

C18_BackoffMatchesFailure ==
    /\ [](\A i \in 1..submitted : \A a \in Actions :
            LET f == fetch[i][a]
            IN  /\ f.got.kind \in { "status_code", "status" }
                      => f.pc = "sleep_delay"
                /\ f.got.kind = "RequestException" => f.pc = "sleep_1"
                /\ f.pc \in Sleeps
                      => f.got.kind \in
                            { "status_code", "status", "RequestException" })
    /\ [][\A i \in 1..submitted : \A a \in Actions :
            fetch'[i][a] # fetch[i][a] =>
                /\ fetch[i][a].pc = "request" => fetch'[i][a].pc # "request"
                /\ fetch[i][a].pc \in Sleeps
                      => /\ fetch'[i][a].pc \in { "request", "returned" }
                         /\ fetch'[i][a].attempt = fetch[i][a].attempt + 1
                /\ (fetch'[i][a].pc = "request" /\ fetch'[i][a].attempt > 0)
                      => fetch[i][a].pc \in Sleeps]_vars

C18_Witness ==
    \E i \in 1..submitted :
        /\ fetch[i]["txlist"].pc = "sleep_1"
        /\ fetch[i]["txlist"].attempt = 1
        /\ fetch[i]["txlist"].got.kind = "RequestException"
        /\ fetch[i]["tokentx"].pc = "sleep_delay"
        /\ fetch[i]["tokentx"].got.kind = "status_code"

(* C19: one pacing delay elapses between the submission of one wallet's    *)
(* task and the submission of the next, so with k tasks submitted at       *)
(* least k - 1 pacing delays are over.                                     *)
(* The only pacing sleep is the one at line 185, one per collected record. *)
PacesElapsed == Len(results) - (IF mainpc = "pace" THEN 1 ELSE 0)

C19_PacedDispatch ==
    submitted >= 1 => PacesElapsed >= submitted - 1

(* C17: when every external call returns or fails within its timeout, the  *)
(* run returns with the record of every submitted wallet collected, and    *)
(* no fetch makes more than MAX_RETRIES attempts.                          *)
C17_Terminates ==
    /\ <>(/\ mainpc = "returned"
          /\ submitted = Len(wallet_ids)
          /\ yielded = 1..submitted
          /\ Len(results) = submitted
          /\ \A i \in 1..submitted : tpc[i] = "done")
    /\ [](\A i \in 1..submitted : \A a \in Actions :
            /\ fetch[i][a].attempt <= MAX_RETRIES
            /\ fetch[i][a].pc = "request" => fetch[i][a].attempt < MAX_RETRIES)

C17_Witness ==
    /\ mainpc = "returned"
    /\ Len(results) = 2
    /\ reads[1].txlist = "exhausted"
    /\ reads[2].tokentx = "ok"

(* C13: at most MAX_WORKERS wallets are being processed at the same time,  *)
(* each with at most two external calls in flight, so at most              *)
(* 2 x MAX_WORKERS fetch attempts and balance reads are in flight.         *)
CallsOf(i) ==
    Cardinality({ a \in Actions : fetch[i][a].pc = "request" })
        + (IF tpc[i] = "balance" THEN 1 ELSE 0)

RECURSIVE SumCalls(_)
SumCalls(n) == IF n = 0 THEN 0 ELSE SumCalls(n - 1) + CallsOf(n)

CallsInFlight == SumCalls(submitted)

C13_BoundedPool ==
    /\ Cardinality(Running) <= MAX_WORKERS
    /\ \A i \in 1..submitted : CallsOf(i) <= 2
    /\ \A i \in 1..submitted : i \notin Running => CallsOf(i) = 0
    /\ CallsInFlight <= 2 * MAX_WORKERS

C13_Witness ==
    /\ Cardinality(Running) = MAX_WORKERS
    /\ \E i \in 1..submitted : tpc[i] = "queued"
    /\ \E i \in 1..submitted : CallsOf(i) = 2
    /\ CallsInFlight > MAX_WORKERS

(* C14: with the wallet list and every wallet's answers fixed, each        *)
(* wallet's record is the one process_wallet gives when run alone on that  *)
(* wallet's answers, whatever the interleaving; a run returns exactly      *)
(* these records, in some order.                                           *)
RECURSIVE RunFetch(_, _)
RunFetch(f, answers) ==
    IF f.pc = "request"
    THEN RunFetch(FetchAnswer(f, answers[f.attempt + 1]), answers)
    ELSE IF f.pc \in { "sleep_delay", "sleep_1" }
    THEN RunFetch(FetchNext(f), answers)
    ELSE f

RunAlone(wallet_address) ==
    LET script == source.script[wallet_address]
        data == FetchWalletData(
                    [a \in Actions |-> RunFetch(Requesting, script[a])])
        m == IF data.exc # "" THEN [exc |-> data.exc]
             ELSE TxMetrics(data.native_txs, data.erc20_txs)
    IN  IF m.exc # ""
        THEN ProcessWalletExcept(wallet_address, m.exc).result
        ELSE ProcessWalletReturn(wallet_address,
                 WalletFeatures(wallet_address, m, script.balance)).result

C14_InterleavingIndependent ==
    /\ \A i \in 1..submitted :
          future[i].state = "done" =>
              (future[i].exception = ""
                  /\ future[i].result = RunAlone(wallet_ids[i]))
    /\ mainpc = "returned" =>
          /\ Len(results) = Len(wallet_ids)
          /\ { results[k] : k \in 1..Len(results) }
                = { RunAlone(wallet_ids[k]) : k \in 1..Len(wallet_ids) }

C14_Witness ==
    /\ mainpc = "returned"
    /\ Len(results) = 2
    /\ results[1].wallet_id = wallet_ids[2]
    /\ results[2].wallet_id = wallet_ids[1]
    /\ "error" \in DOMAIN results[1]
    /\ results[2].score > 0
    /\ reads[1].txlist = "exhausted"

====
